---- MODULE Spec2Model ----
(***************************************************************************)
(* Model of xmlschema_codegen.AbstractGenerator (abstract_generator.py):   *)
(* the type sorter (sorted_types, sorted_complex_types), the type name     *)
(* mapper (map_type) and the template rendering loops (render,             *)
(* render_to_files).                                                       *)
(***************************************************************************)
EXTENDS Integers, Sequences, FiniteSets, TLC

VARIABLES
    \* ---- sorted_types / sorted_complex_types
    entry,              \* the method the caller called
    arg,                \* the collection the caller passed
    accept_circularity, \* the flag the caller passed
    kind,               \* per type: "simple", "simple_content" or "complex"
    elems,              \* per type: types of the element declarations of its content
    pc,                 \* position of the call
    xsd_types,          \* sorted_types' local list
    ordered_types,      \* sorted_types' output list
    unordered,          \* sorted_types' dict: [keys: insertion order, deps: key -> list]
    passes,             \* iterations of the while loop started so far
    error,              \* the list named by the circularity error
    \* ---- map_type
    types_map,          \* self.types_map
    obj,                \* map_type's argument
    map_result,         \* what map_type returned or raised
    \* ---- render / render_to_files
    names,              \* the names argument
    status,             \* per template name: what get_template does with it
    files,              \* per target path of the output directory: its content
    force,              \* the force argument
    template_names,     \* the list the loop runs over
    idx,                \* the loop's position in template_names
    results             \* render's results, render_to_files' rendered

vars == <<entry, arg, accept_circularity, kind, elems, pc, xsd_types, ordered_types,
          unordered, passes, error, types_map, obj, map_result,
          names, status, files, force, template_names, idx, results>>

mapVars == <<types_map, obj, map_result>>
renderVars == <<names, status, files, force, template_names, idx, results>>

-----------------------------------------------------------------------------
(* Bounds and universes *)

MaxLen == 3

TypeOrder == <<"t1", "t2", "t3">>

Range(s) == {s[i] : i \in 1..Len(s)}

Types == Range(TypeOrder)

Kinds == {"simple", "simple_content", "complex"}

BoundedSeq(S, n) == UNION {[1..m -> S] : m \in 0..n}

\* the elements of sequence s that are in the set S, in s's order
Restrict(s, S) == SelectSeq(s, LAMBDA x : x \in S)

RECURSIVE Dedup(_)
\* first occurrences of s, in order: the key order of a dict built from s
Dedup(s) ==
    IF s = <<>> THEN <<>>
    ELSE LET r == Dedup(SubSeq(s, 1, Len(s) - 1))
             x == s[Len(s)]
         IN IF x \in Range(r) THEN r ELSE Append(r, x)

-----------------------------------------------------------------------------
(* XsdType as the sorter sees it *)

is_simple(t) == kind[t] = "simple"

is_complex(t) == kind[t] # "simple"

has_simple_content(t) == kind[t] # "complex"

\* content_type.iter_elements(): the types of the child element declarations.
\* The sorter only tests the collected types for membership (lines 421, 434)
\* and the list for emptiness (line 428), so each type is listed once.
iter_elements(t) == Restrict(TypeOrder, elems[t])

-----------------------------------------------------------------------------
(* sorted_types, lines 401-443 *)

\* line 415
SimpleTypes(xs) == SelectSeq(xs, is_simple)

\* line 416
SimpleContentTypes(xs) ==
    SelectSeq(xs, LAMBDA x : is_complex(x) /\ has_simple_content(x))

\* line 417: the keys of the dict comprehension, in insertion order
UnorderedKeys(xs) ==
    Dedup(SelectSeq(xs, LAMBDA x : is_complex(x) /\ ~has_simple_content(x)))

\* mutant: a type's reference to itself is not recorded as a dependency
DependencyLists_NoSelf(keys) ==
    [t \in Range(keys) |-> Restrict(iter_elements(t), Range(keys) \ {t})]

\* lines 419-422
DependencyLists(keys) ==
    [t \in Range(keys) |-> Restrict(iter_elements(t), Range(keys))]

\* mutant: the complex types with simple content are emitted first
Partition_SimpleContentFirst(xs) ==
    [ordered |-> SimpleContentTypes(xs) \o SimpleTypes(xs),
     unordered |-> [keys |-> UnorderedKeys(xs),
                    deps |-> DependencyLists(UnorderedKeys(xs))]]

\* lines 415-422
Partition(xs) ==
    [ordered |-> SimpleTypes(xs) \o SimpleContentTypes(xs),
     unordered |-> [keys |-> UnorderedKeys(xs),
                    deps |-> DependencyLists(UnorderedKeys(xs))]]

\* mutant: the scan runs over the dict's keys from the last to the first
ReadyTypes_Reversed(xs, un) ==
    LET ready == SelectSeq(un.keys, LAMBDA x : un.deps[x] = <<>>)
    IN [i \in 1..Len(ready) |-> ready[Len(ready) + 1 - i]]

\* lines 426-431: the types deleted by one scan of xsd_types, in deletion order
ReadyTypes(xs, un) ==
    Dedup(SelectSeq(xs, LAMBDA x : x \in Range(un.keys) /\ un.deps[x] = <<>>))

\* mutant: the filtering empties every remaining dependency list
FilterUnordered_ClearsDeps(un, ready) ==
    LET keys == SelectSeq(un.keys, LAMBDA x : x \notin Range(ready))
    IN [keys |-> keys, deps |-> [t \in Range(keys) |-> <<>>]]

\* lines 429, 433-434: the dict after the deletions and the filtering
FilterUnordered(un, ready) ==
    LET keys == SelectSeq(un.keys, LAMBDA x : x \notin Range(ready))
    IN [keys |-> keys,
        deps |-> [t \in Range(keys) |-> Restrict(un.deps[t], Range(keys))]]

\* mutant: the residue is accepted but the loop is not left
PassExit_NoBreak(deleted, accept) ==
    IF deleted # 0 \/ accept THEN "continue" ELSE "raise"

\* lines 436-440: how a pass that deleted `deleted` types ends
PassExit(deleted, accept) ==
    IF deleted # 0 THEN "continue"
    ELSE IF ~accept THEN "raise" ELSE "break"

\* lines 425-440: one iteration of the while loop
OnePass(xs, accept, ordered, un) ==
    LET ready == ReadyTypes(xs, un)
        rest == FilterUnordered(un, ready)
        exit == PassExit(Len(ready), accept)
    IN [ordered |-> IF exit = "break" THEN ordered \o ready \o rest.keys
                    ELSE ordered \o ready,
        unordered |-> rest,
        exit |-> exit]

\* line 442
LengthAssertion(xs, ordered) == Len(xs) = Len(ordered)

RECURSIVE WhileUnordered(_, _, _, _)
\* lines 424-443
WhileUnordered(xs, accept, ordered, un) ==
    IF un.keys = <<>>
    THEN IF LengthAssertion(xs, ordered)
         THEN [outcome |-> "returned", value |-> ordered]
         ELSE [outcome |-> "AssertionError", value |-> <<>>]
    ELSE LET r == OnePass(xs, accept, ordered, un)
         IN CASE r.exit = "raise" ->
                   [outcome |-> "ValueError", value |-> r.unordered.keys]
              [] r.exit = "break" ->
                   IF LengthAssertion(xs, r.ordered)
                   THEN [outcome |-> "returned", value |-> r.ordered]
                   ELSE [outcome |-> "AssertionError", value |-> <<>>]
              [] OTHER -> WhileUnordered(xs, accept, r.ordered, r.unordered)

\* lines 401-443 as a function: [outcome, value]
sorted_types(xs, accept) ==
    LET p == Partition(xs)
    IN WhileUnordered(xs, accept, p.ordered, p.unordered)

\* mutant: the complex types with simple content are removed too
RemoveSimple_StructuredOnly(xs) ==
    SelectSeq(xs, LAMBDA x : is_complex(x) /\ ~has_simple_content(x))

\* lines 449-452
RemoveSimple(xs) == SelectSeq(xs, LAMBDA x : ~is_simple(x))

\* lines 445-454 as a function
sorted_complex_types(xs, accept) == sorted_types(RemoveSimple(xs), accept)

-----------------------------------------------------------------------------
(* The sorter, one step per loop iteration *)

NoDict == [keys |-> <<>>, deps |-> <<>>]

Terminal == {"returned", "ValueError", "AssertionError"}

\* the inputs: a list of at most MaxLen types (an entry may repeat), the kind of
\* each listed type and the child element types of each listed complex type with
\* structured content. Types not listed are never inspected by the sorter.
InitSort ==
    /\ arg \in BoundedSeq(Types, MaxLen)
    /\ accept_circularity \in BOOLEAN
    /\ \E k \in [Range(arg) -> Kinds] :
           kind = [t \in Types |-> IF t \in Range(arg) THEN k[t] ELSE "simple"]
    /\ \E e \in [{t \in Range(arg) : kind[t] = "complex"} -> SUBSET Types] :
           elems = [t \in Types |-> IF t \in DOMAIN e THEN e[t] ELSE {}]
    /\ entry \in {"sorted_types", "sorted_complex_types"}
    /\ pc = entry
    /\ xsd_types = arg
    /\ ordered_types = <<>>
    /\ unordered = NoDict
    /\ passes = 0
    /\ error = <<>>
    /\ types_map = <<>> /\ obj = <<>> /\ map_result = <<>>
    /\ names = <<>> /\ status = <<>> /\ files = <<>> /\ force = FALSE
    /\ template_names = <<>> /\ idx = 0 /\ results = <<>>

\* lines 449-454: drop the simple types, then call sorted_types
CallSortedComplexTypes ==
    /\ pc = "sorted_complex_types"
    /\ xsd_types' = RemoveSimple(arg)
    /\ pc' = "sorted_types"
    /\ UNCHANGED <<entry, arg, accept_circularity, kind, elems, ordered_types,
                   unordered, passes, error>>
    /\ UNCHANGED <<mapVars, renderVars>>

\* lines 409-422
BuildBuckets ==
    /\ pc = "sorted_types"
    /\ LET p == Partition(xsd_types)
       IN /\ ordered_types' = p.ordered
          /\ unordered' = p.unordered
    /\ pc' = "while"
    /\ UNCHANGED <<entry, arg, accept_circularity, kind, elems, xsd_types, passes, error>>
    /\ UNCHANGED <<mapVars, renderVars>>

\* lines 424-440, a pass that deletes at least one type
PassProgress ==
    /\ pc = "while"
    /\ unordered.keys # <<>>
    /\ LET r == OnePass(xsd_types, accept_circularity, ordered_types, unordered)
       IN /\ r.exit = "continue"
          /\ ordered_types' = r.ordered
          /\ unordered' = r.unordered
    /\ passes' = passes + 1
    /\ UNCHANGED <<entry, arg, accept_circularity, kind, elems, xsd_types, pc, error>>
    /\ UNCHANGED <<mapVars, renderVars>>

\* lines 424-438, a pass that deletes nothing, accept_circularity false
PassRaise ==
    /\ pc = "while"
    /\ unordered.keys # <<>>
    /\ LET r == OnePass(xsd_types, accept_circularity, ordered_types, unordered)
       IN /\ r.exit = "raise"
          /\ ordered_types' = r.ordered
          /\ unordered' = r.unordered
          /\ error' = r.unordered.keys
    /\ passes' = passes + 1
    /\ pc' = "ValueError"
    /\ UNCHANGED <<entry, arg, accept_circularity, kind, elems, xsd_types>>
    /\ UNCHANGED <<mapVars, renderVars>>

\* lines 424-440, a pass that deletes nothing, accept_circularity true
PassBreak ==
    /\ pc = "while"
    /\ unordered.keys # <<>>
    /\ LET r == OnePass(xsd_types, accept_circularity, ordered_types, unordered)
       IN /\ r.exit = "break"
          /\ ordered_types' = r.ordered
          /\ unordered' = r.unordered
    /\ passes' = passes + 1
    /\ pc' = "assert"
    /\ UNCHANGED <<entry, arg, accept_circularity, kind, elems, xsd_types, error>>
    /\ UNCHANGED <<mapVars, renderVars>>

\* line 424, the loop test fails
LoopExit ==
    /\ pc = "while"
    /\ unordered.keys = <<>>
    /\ pc' = "assert"
    /\ UNCHANGED <<entry, arg, accept_circularity, kind, elems, xsd_types, ordered_types,
                   unordered, passes, error>>
    /\ UNCHANGED <<mapVars, renderVars>>

\* lines 442-443
Return ==
    /\ pc = "assert"
    /\ pc' = IF LengthAssertion(xsd_types, ordered_types)
             THEN "returned" ELSE "AssertionError"
    /\ UNCHANGED <<entry, arg, accept_circularity, kind, elems, xsd_types, ordered_types,
                   unordered, passes, error>>
    /\ UNCHANGED <<mapVars, renderVars>>

NextSort ==
    \/ CallSortedComplexTypes
    \/ BuildBuckets
    \/ PassProgress
    \/ PassRaise
    \/ PassBreak
    \/ LoopExit
    \/ Return

Spec == InitSort /\ [][NextSort]_vars

-----------------------------------------------------------------------------
(* map_type, lines 258-282 *)

MaxBases == 1

\* Python's None, as a name or as an absent object
None == <<>>

\* helpers.xsd_qname: the name qualified with the XSD namespace
xsd_qname(local) == <<"xsd", local>>

\* the qualified names a type can have; an anonymous type has none
TypeNames ==
    {xsd_qname("anyType"), xsd_qname("anySimpleType"),
     <<"tns", "n1">>, <<"tns", "n2">>, None}

TargetStrings == {"", "INTEGER"}

RECURSIVE XsdTypeObjects(_)
\* type objects whose base_type chain has up to d further types; base_type is
\* None or <<the base type>>
XsdTypeObjects(d) ==
    LET bases == IF d = 0 THEN {None}
                 ELSE {None} \cup {<<b>> : b \in XsdTypeObjects(d - 1)}
    IN {[name |-> n, complex |-> c, base_type |-> b] :
            n \in TypeNames, c \in BOOLEAN, b \in bases}

\* what map_type can be given: a type, a declaration holding a type, or
\* something else
Objects ==
    {[class |-> k, type |-> <<t>>] :
        k \in {"XsdType", "XsdElement", "XsdAttribute"},
        t \in XsdTypeObjects(MaxBases)}
    \cup {[class |-> "other", type |-> None]}

\* lines 122-125, 162-168: the builtin table with the universal keys, updated
\* with the custom entries
TypesMaps ==
    {[n \in DOMAIN u \cup DOMAIN c |-> IF n \in DOMAIN c THEN c[n] ELSE u[n]] :
        u \in [{xsd_qname("anyType"), xsd_qname("anySimpleType")} -> TargetStrings],
        c \in UNION {[K -> TargetStrings] : K \in SUBSET {<<"tns", "n1">>, <<"tns", "n2">>}}}

Returned(v) == [outcome |-> "returned", value |-> v]

Raised(e) == [outcome |-> e, value |-> ""]

\* self.types_map[key], lines 274, 277, 280, 282
Lookup(map, key) ==
    IF key \in DOMAIN map THEN Returned(map[key]) ELSE Raised("KeyError")

\* xsd_type.base_type.name, line 277
BaseTypeName(xsd_type) ==
    IF xsd_type.base_type = None THEN Raised("AttributeError")
    ELSE Returned(xsd_type.base_type[1].name)

\* lines 279-282
UniversalFallback(map, xsd_type) ==
    IF xsd_type.complex THEN Lookup(map, xsd_qname("anyType"))
    ELSE Lookup(map, xsd_qname("anySimpleType"))

\* lines 273-282
MapXsdType(map, xsd_type) ==
    LET first == Lookup(map, xsd_type.name)
    IN IF first.outcome # "KeyError" THEN first
       ELSE LET base == BaseTypeName(xsd_type)
            IN IF base.outcome # "returned" THEN base
               ELSE LET second == Lookup(map, base.value)
                    IN IF second.outcome # "KeyError" THEN second
                       ELSE UniversalFallback(map, xsd_type)

\* lines 266-282
map_type(map, o) ==
    IF o.class \in {"XsdType", "XsdAttribute", "XsdElement"}
    THEN MapXsdType(map, o.type[1])
    ELSE Returned("")

Pending == [outcome |-> "pending", value |-> ""]

InitMapType ==
    /\ types_map \in TypesMaps
    /\ obj \in Objects
    /\ map_result = Pending
    /\ entry = "map_type" /\ pc = "map_type"
    /\ arg = <<>> /\ accept_circularity = FALSE
    /\ kind = [t \in Types |-> "simple"] /\ elems = [t \in Types |-> {}]
    /\ xsd_types = <<>> /\ ordered_types = <<>> /\ unordered = NoDict
    /\ passes = 0 /\ error = <<>>
    /\ names = <<>> /\ status = <<>> /\ files = <<>> /\ force = FALSE
    /\ template_names = <<>> /\ idx = 0 /\ results = <<>>

\* one call of map_type
MapType ==
    /\ pc = "map_type"
    /\ map_result' = map_type(types_map, obj)
    /\ pc' = map_result'.outcome
    /\ UNCHANGED <<types_map, obj, renderVars>>
    /\ UNCHANGED <<entry, arg, accept_circularity, kind, elems, xsd_types,
                   ordered_types, unordered, passes, error>>

NextMapType == MapType

SpecMapType == InitMapType /\ [][NextMapType]_vars

-----------------------------------------------------------------------------
(* render and render_to_files, lines 202-256 *)

MaxNames == 2

\* a name is a directory and the dot-separated parts of a file name
TemplateA == [dir |-> "", parts |-> <<"a", "f90", "jinja">>]

TemplateC == [dir |-> "", parts |-> <<"c", "txt">>]

TemplateSubA == [dir |-> "sub", parts |-> <<"a", "f90", "jinja">>]

PatternF90 == [dir |-> "", parts |-> <<"*", "f90", "jinja">>]

\* the literal names, in the sorted order list_templates gives them
LiteralOrder == <<TemplateA, TemplateC, TemplateSubA>>

LiteralNames == Range(LiteralOrder)

RequestNames == LiteralNames \cup {PatternF90}

\* what self._env.get_template(name) does: return a template, or raise one of
\* the two exceptions the loops catch, or raise TemplateSyntaxError, the
\* parent class of TemplateAssertionError, which neither except clause names
LoadOutcomes ==
    {"template", "TemplateNotFound", "TemplateAssertionError",
     "TemplateSyntaxError"}

\* helpers.is_shell_wildcard
is_shell_wildcard(name) == \E i \in 1..Len(name.parts) : name.parts[i] = "*"

\* fnmatch(x, name) for a pattern "*" followed by fixed parts: the pattern's
\* fixed parts end x, whatever comes before them, directories included
fnmatch(x, name) ==
    LET k == Len(name.parts) - 1
    IN /\ Len(x.parts) >= k + 1
       /\ SubSeq(x.parts, Len(x.parts) - k + 1, Len(x.parts))
              = SubSeq(name.parts, 2, Len(name.parts))

\* line 194: the templates the loaders list that match the pattern
matching_templates(name) ==
    SelectSeq(LiteralOrder,
              LAMBDA x : status[x] # "TemplateNotFound" /\ fnmatch(x, name))

\* get_template on a requested name; no template file is named like a pattern
GetTemplate(name) ==
    IF name \in LiteralNames THEN status[name] ELSE "TemplateNotFound"

RECURSIVE ExpandNames(_)
\* lines 226-231
ExpandNames(ns) ==
    IF ns = <<>> THEN <<>>
    ELSE IF is_shell_wildcard(Head(ns))
         THEN matching_templates(Head(ns)) \o ExpandNames(Tail(ns))
         ELSE <<Head(ns)>> \o ExpandNames(Tail(ns))

\* the names argument: a list of strings, or one string (its only item)
NamesArguments ==
    {[is_str |-> FALSE, items |-> ns] : ns \in BoundedSeq(RequestNames, MaxNames)}
    \cup {[is_str |-> TRUE, items |-> <<n>>] : n \in RequestNames}

\* lines 203-204, 221-222: a single string is wrapped in a list
NamesList(ns) == IF ns.is_str THEN <<ns.items[1]>> ELSE ns.items

\* line 244: Path(name).name drops the directories, with_suffix('') drops
\* the last extension when there is one
OutputFile(name) ==
    IF Len(name.parts) > 1 THEN SubSeq(name.parts, 1, Len(name.parts) - 1)
    ELSE name.parts

OutputFiles == {OutputFile(n) : n \in LiteralNames}

\* line 217: template.render(schema=self.schema)
RenderSchema(name) == [template |-> name, context |-> <<"schema">>]

\* lines 248-249: template.render(schema=..., sorted_complex_types=...)
RenderSorted(name, sorted) ==
    [template |-> name, context |-> <<"schema", sorted>>]

\* a target path of the output directory: no file, or a file and its text
NoFile == [exists |-> FALSE, text |-> <<>>]

\* a file written before the call
OldFile ==
    [exists |-> TRUE,
     text |-> <<[template |-> [dir |-> "", parts |-> <<"old">>], context |-> <<>>]>>]

\* line 254: template.filename, the file a loader found for the name
TemplateFilename(name) == <<"searchpath", name.dir, name.parts>>

\* the next position of the loop after the current name was handled
NextName(i) == i + 1

InitRender ==
    /\ entry \in {"render", "render_to_files"}
    /\ pc = entry
    /\ names \in NamesArguments
    /\ status \in [LiteralNames -> LoadOutcomes]
    /\ files \in [OutputFiles -> {NoFile, OldFile}]
    /\ force \in (IF entry = "render" THEN {FALSE} ELSE BOOLEAN)
    /\ template_names = <<>> /\ idx = 0 /\ results = <<>>
    \* self.schema.types: one complex type, self-referencing or not
    /\ arg = <<"t1">>
    /\ accept_circularity = FALSE
    /\ kind = [t \in Types |-> IF t = "t1" THEN "complex" ELSE "simple"]
    /\ \E e \in {{}, {"t1"}} : elems = [t \in Types |-> IF t = "t1" THEN e ELSE {}]
    /\ xsd_types = <<>> /\ ordered_types = <<>> /\ unordered = NoDict
    /\ passes = 0 /\ error = <<>>
    /\ types_map = <<>> /\ obj = <<>> /\ map_result = <<>>

renderFrame == <<arg, accept_circularity, kind, elems, xsd_types, ordered_types,
                 unordered, passes, error, types_map, obj, map_result,
                 entry, names, status, force>>

\* lines 203-208
RenderBegin ==
    /\ pc = "render"
    /\ template_names' = NamesList(names)
    /\ results' = <<>>
    /\ idx' = 1
    /\ pc' = "render_loop"
    /\ UNCHANGED <<renderFrame, files>>

\* lines 210-215: the two except clauses log and go on
RenderSkip ==
    /\ pc = "render_loop"
    /\ idx <= Len(template_names)
    /\ GetTemplate(template_names[idx]) \in {"TemplateNotFound", "TemplateAssertionError"}
    /\ idx' = NextName(idx)
    /\ UNCHANGED <<renderFrame, files, template_names, results, pc>>

\* line 211: an exception no except clause names leaves render
RenderRaise ==
    /\ pc = "render_loop"
    /\ idx <= Len(template_names)
    /\ GetTemplate(template_names[idx]) = "TemplateSyntaxError"
    /\ pc' = "TemplateSyntaxError"
    /\ UNCHANGED <<renderFrame, files, template_names, results, idx>>

\* lines 216-217
RenderAppend ==
    /\ pc = "render_loop"
    /\ idx <= Len(template_names)
    /\ GetTemplate(template_names[idx]) = "template"
    /\ results' = Append(results, RenderSchema(template_names[idx]))
    /\ idx' = NextName(idx)
    /\ UNCHANGED <<renderFrame, files, template_names, pc>>

\* line 218
RenderReturn ==
    /\ pc = "render_loop"
    /\ idx > Len(template_names)
    /\ pc' = "returned"
    /\ UNCHANGED <<renderFrame, files, template_names, results, idx>>

\* lines 221-234
FilesBegin ==
    /\ pc = "render_to_files"
    /\ template_names' = ExpandNames(NamesList(names))
    /\ results' = <<>>
    /\ idx' = 1
    /\ pc' = "files_loop"
    /\ UNCHANGED <<renderFrame, files>>

\* lines 237-242
FilesSkip ==
    /\ pc = "files_loop"
    /\ idx <= Len(template_names)
    /\ GetTemplate(template_names[idx]) \in {"TemplateNotFound", "TemplateAssertionError"}
    /\ idx' = NextName(idx)
    /\ UNCHANGED <<renderFrame, files, template_names, results, pc>>

\* line 238: an exception no except clause names leaves render_to_files
FilesRaise ==
    /\ pc = "files_loop"
    /\ idx <= Len(template_names)
    /\ GetTemplate(template_names[idx]) = "TemplateSyntaxError"
    /\ pc' = "TemplateSyntaxError"
    /\ UNCHANGED <<renderFrame, files, template_names, results, idx>>

\* lines 244-246: the target exists and force is not set
FilesSkipExisting ==
    /\ pc = "files_loop"
    /\ idx <= Len(template_names)
    /\ GetTemplate(template_names[idx]) = "template"
    /\ ~force /\ files[OutputFile(template_names[idx])].exists
    /\ idx' = NextName(idx)
    /\ UNCHANGED <<renderFrame, files, template_names, results, pc>>

\* lines 244-254: the template is rendered, the text printed and the
\* template's file name recorded; the two lines that write the file are
\* commented out (252-253), so no file changes
FilesRender ==
    /\ pc = "files_loop"
    /\ idx <= Len(template_names)
    /\ GetTemplate(template_names[idx]) = "template"
    /\ force \/ ~files[OutputFile(template_names[idx])].exists
    /\ sorted_complex_types(arg, FALSE).outcome = "returned"
    /\ results' = Append(results, TemplateFilename(template_names[idx]))
    /\ idx' = NextName(idx)
    /\ UNCHANGED <<renderFrame, files, template_names, pc>>

\* line 249: sorted_complex_types raises the circularity error
FilesSortRaise ==
    /\ pc = "files_loop"
    /\ idx <= Len(template_names)
    /\ GetTemplate(template_names[idx]) = "template"
    /\ force \/ ~files[OutputFile(template_names[idx])].exists
    /\ sorted_complex_types(arg, FALSE).outcome = "ValueError"
    /\ pc' = "ValueError"
    /\ UNCHANGED <<renderFrame, files, template_names, results, idx>>

\* line 256
FilesReturn ==
    /\ pc = "files_loop"
    /\ idx > Len(template_names)
    /\ pc' = "returned"
    /\ UNCHANGED <<renderFrame, files, template_names, results, idx>>

NextRender ==
    \/ RenderBegin
    \/ RenderSkip
    \/ RenderRaise
    \/ RenderAppend
    \/ RenderReturn
    \/ FilesBegin
    \/ FilesSkip
    \/ FilesRaise
    \/ FilesSkipExisting
    \/ FilesRender
    \/ FilesSortRaise
    \/ FilesReturn

SpecRender == InitRender /\ [][NextRender]_vars

-----------------------------------------------------------------------------
(* The dependency graph of a sorter input, for stating the properties *)

\* the complex types with structured content among the listed types
Structured(xs) == {t \in Range(xs) : is_complex(t) /\ ~has_simple_content(t)}

\* the types of S that t's child element declarations have
Successors(S, t) == elems[t] \cap S

RECURSIVE Closure(_, _, _)
Closure(S, F, n) ==
    IF n = 0 THEN F
    ELSE Closure(S, F \cup UNION {Successors(S, a) : a \in F}, n - 1)

\* the types of S that t reaches through one or more child-element steps
ReachPlus(S, t) == Closure(S, Successors(S, t), Cardinality(S))

HasCycle(S) == \E t \in S : t \in ReachPlus(S, t)

\* the types that are on a cycle or reach one
CycleBound(S) ==
    {t \in S : \E c \in ReachPlus(S, t) \cup {t} : c \in ReachPlus(S, c)}

RECURSIVE Depth(_, _)
\* the longest chain of child-element steps below t (t not cycle-bound)
Depth(S, t) ==
    IF Successors(S, t) = {} THEN 0
    ELSE LET ds == {Depth(S, u) : u \in Successors(S, t)}
         IN 1 + CHOOSE d \in ds : \A e \in ds : e <= d

Count(s, x) == Cardinality({i \in 1..Len(s) : s[i] = x})

IsPermutation(s, r) ==
    /\ Len(s) = Len(r)
    /\ \A x \in Range(s) \cup Range(r) : Count(s, x) = Count(r, x)

\* some occurrence of x comes before some occurrence of y
Precedes(s, x, y) == \E i, j \in 1..Len(s) : i < j /\ s[i] = x /\ s[j] = y

\* every occurrence of x comes before every occurrence of y
AllBefore(s, x, y) == \A i, j \in 1..Len(s) : (s[i] = x /\ s[j] = y) => i < j

BucketRank(t) ==
    IF is_simple(t) THEN 0 ELSE IF has_simple_content(t) THEN 1 ELSE 2

-----------------------------------------------------------------------------
(* Properties of the sorter *)

\* C1: sorted_types returns a permutation of its input when accept_circularity
\* is true, returns a permutation or raises the circularity error when it is
\* false, and the final length assertion never fails.
C1_Permutation ==
    pc \in Terminal =>
        /\ pc # "AssertionError"
        /\ accept_circularity => pc = "returned"
        /\ pc = "returned" => IsPermutation(ordered_types, xsd_types)

\* C2: when the dependency graph among the structured-content types is
\* acyclic, a type that is the type of a child element of A comes before A
\* in the returned sequence.
C2_DependencyOrder ==
    LET S == Structured(xsd_types)
    IN (pc = "returned" /\ ~HasCycle(S)) =>
           \A a, b \in S : b \in elems[a] => AllBefore(ordered_types, b, a)

\* a chain a -> b -> c, listed dependents first, is returned reversed
C2_Witness ==
    LET S == Structured(xsd_types)
    IN /\ pc = "returned"
       /\ ~HasCycle(S)
       /\ \E a, b, c \in S :
              /\ b \in elems[a] /\ c \in elems[b]
              /\ xsd_types = <<a, b, c>>
              /\ ordered_types = <<c, b, a>>

C5_InputOrderKept ==
    pc = "returned" =>
        \A x, y \in Range(xsd_types) :
            (/\ x # y
             /\ y \notin ReachPlus(Types, x)
             /\ x \notin ReachPlus(Types, y)
             /\ Precedes(xsd_types, x, y))
                => Precedes(ordered_types, x, y)

\* where a type is emitted: its bucket and, for a structured-content type,
\* the pass that removes it (its depth) or the circular residue
Group(xs, t) ==
    IF BucketRank(t) < 2 THEN <<BucketRank(t), 0>>
    ELSE IF t \in CycleBound(Structured(xs)) THEN <<3, 0>>
    ELSE <<2, Depth(Structured(xs), t)>>

\* C5 amended: two listed types of the same bucket (both simple, both complex
\* with simple content, or both structured-content types removed by the same
\* pass or both left in the circular residue) keep their input order in the
\* returned sequence.
C5_OrderKeptWithinGroup ==
    pc = "returned" =>
        \A x, y \in Range(xsd_types) :
            (/\ x # y
             /\ Group(xsd_types, x) = Group(xsd_types, y)
             /\ Precedes(xsd_types, x, y))
                => Precedes(ordered_types, x, y)

\* y and z are removed by the first pass in their input order, x after them
C5_Witness ==
    /\ pc = "returned"
    /\ \E x, y, z \in Range(xsd_types) :
           /\ Cardinality({x, y, z}) = 3
           /\ xsd_types = <<x, y, z>>
           /\ Structured(xsd_types) = {x, y, z}
           /\ elems[x] = {y} /\ elems[y] = {} /\ elems[z] = {}
           /\ Group(xsd_types, y) = Group(xsd_types, z)
           /\ ordered_types = <<y, z, x>>

\* C6: without circularity, every simple type comes before every complex
\* type with simple content, and these before every structured-content type.
C6_BucketOrder ==
    (pc = "returned" /\ ~HasCycle(Structured(xsd_types))) =>
        \A i, j \in 1..Len(ordered_types) :
            BucketRank(ordered_types[i]) < BucketRank(ordered_types[j]) => i < j

\* one type of each bucket, listed in the opposite order
C6_Witness ==
    /\ pc = "returned"
    /\ ~HasCycle(Structured(xsd_types))
    /\ Len(xsd_types) = 3
    /\ BucketRank(xsd_types[1]) = 2
    /\ BucketRank(xsd_types[2]) = 1
    /\ BucketRank(xsd_types[3]) = 0
    /\ ordered_types = <<xsd_types[3], xsd_types[2], xsd_types[1]>>

\* C9: sorted_complex_types yields no simple type and ends as sorted_types on
\* the same collection does, with the simple types removed from the result:
\* the same sequence of complex types, or the same circularity error.
C9_ComplexVariant ==
    (pc \in Terminal /\ entry = "sorted_complex_types") =>
        LET full == sorted_types(arg, accept_circularity)
        IN /\ pc = full.outcome
           /\ pc = "returned" =>
                  /\ \A i \in 1..Len(ordered_types) : ~is_simple(ordered_types[i])
                  /\ ordered_types = SelectSeq(full.value, LAMBDA x : ~is_simple(x))
           /\ pc = "ValueError" => error = full.value

\* a simple type between two dependent complex types is dropped
C9_Witness ==
    /\ entry = "sorted_complex_types"
    /\ pc = "returned"
    /\ Len(arg) = 3
    /\ is_simple(arg[2])
    /\ Structured(arg) = {arg[1], arg[3]}
    /\ elems[arg[1]] = {arg[3]}
    /\ ordered_types = <<arg[3], arg[1]>>

\* the circularity error of the complex-types variant
C9_WitnessError ==
    /\ entry = "sorted_complex_types"
    /\ pc = "ValueError"
    /\ \E i \in 1..Len(arg) : is_simple(arg[i])
    /\ error # <<>>

\* a pass removes a type from the working set, or raises, or appends the
\* residue in its current order and leaves the loop
PassShrinksOrEnds ==
    (pc = "while" /\ unordered.keys # <<>> /\ passes' # passes) =>
        \/ /\ pc' = "while"
           /\ Len(unordered'.keys) < Len(unordered.keys)
        \/ /\ pc' = "ValueError" /\ ~accept_circularity
           /\ error' = unordered.keys
        \/ /\ pc' = "assert" /\ accept_circularity
           /\ ordered_types' = ordered_types \o unordered.keys

\* at most n + 1 passes over n structured-content types; after the loop the
\* working set is empty or is the residue that ends the output
PassBound ==
    /\ passes <= Cardinality(Structured(xsd_types)) + 1
    /\ pc \in {"assert", "returned", "AssertionError"} =>
           \/ unordered.keys = <<>>
           \/ /\ accept_circularity
              /\ Len(ordered_types) >= Len(unordered.keys)
              /\ SubSeq(ordered_types,
                        Len(ordered_types) - Len(unordered.keys) + 1,
                        Len(ordered_types)) = unordered.keys

\* a started pass always takes one of the three exits, so the loop never hangs
PassCanRun ==
    (pc = "while" /\ unordered.keys # <<>>) =>
        OnePass(xsd_types, accept_circularity, ordered_types, unordered).exit
            \in {"continue", "raise", "break"}

\* a natural number that every step of a call decreases
Variant ==
    CASE pc = "sorted_complex_types" -> Len(arg) + 5
      [] pc = "sorted_types" -> Len(arg) + 4
      [] pc = "while" -> Len(unordered.keys) + 2
      [] pc = "assert" -> 1
      [] OTHER -> 0

\* C10: every pass either removes a type from the working set or ends the
\* loop (raising when accept_circularity is false, appending the residue in
\* its current order when it is true); a sort over n structured-content
\* types makes at most n + 1 passes and ends with the working set empty, the
\* residue emitted or the error raised.
\* Termination is stated as safety: every step decreases Variant, a started
\* pass always has an exit, and the passes are bounded.
C10_Termination ==
    /\ []PassBound
    /\ []PassCanRun
    /\ [][PassShrinksOrEnds /\ Variant' < Variant]_vars

\* two productive passes, then the pass that appends the residue
C10_Witness ==
    /\ pc = "returned"
    /\ accept_circularity
    /\ Cardinality(Structured(xsd_types)) = 3
    /\ passes = 3
    /\ unordered.keys # <<>>

-----------------------------------------------------------------------------
(* Properties of map_type *)

\* the value the fallback chain is said to give for a type
ChainValue(map, t) ==
    IF t.name \in DOMAIN map THEN map[t.name]
    ELSE IF t.base_type # None /\ t.base_type[1].name \in DOMAIN map
         THEN map[t.base_type[1].name]
    ELSE IF t.complex THEN map[xsd_qname("anyType")]
    ELSE map[xsd_qname("anySimpleType")]

\* C4: map_type returns the value mapped to the type's name, else the value
\* mapped to its base_type's name (one level only), else, whether base_type
\* is another type or null, the anyType value for a complex type and the
\* anySimpleType value for a simple one; it never fails while the universal
\* keys are present.
C4_FallbackChain ==
    (map_result # Pending /\ obj.class # "other") =>
        map_result = Returned(ChainValue(types_map, obj.type[1]))

-----------------------------------------------------------------------------
(* Properties of render and render_to_files *)

\* the names of ns whose template get_template returns, in order
Loaded(ns) == SelectSeq(ns, LAMBDA n : GetTemplate(n) = "template")

\* C7: after render_to_files returns, for every matched template that loads:
\* with force set or the target file absent before the call, the target file
\* holds the rendered text; with force not set and the target file present,
\* the file is unchanged and the template is not reported as rendered.
\* (No action assigns files, so its value is also the one before the call.)
C7_FilesWritten ==
    (entry = "render_to_files" /\ pc = "returned") =>
        \A i \in 1..Len(template_names) :
            LET name == template_names[i]
                target == OutputFile(name)
            IN GetTemplate(name) = "template" =>
                   IF force \/ ~files[target].exists
                   THEN /\ files[target].exists
                        /\ files[target].text
                               = <<RenderSorted(name, sorted_complex_types(arg, FALSE).value)>>
                   ELSE /\ files[target] = OldFile
                        /\ TemplateFilename(name) \notin Range(results)

\* C8: a requested name whose template does not exist or fails to compile is
\* skipped without raising and the later names are still processed: the
\* result of render, and likewise of render_to_files, holds in request order
\* exactly one entry per requested name whose template loads.
C8_FailingNamesSkipped ==
    /\ pc # "TemplateSyntaxError"
    /\ (entry = "render" /\ pc = "returned") =>
           /\ Len(results) = Len(Loaded(NamesList(names)))
           /\ \A i \in 1..Len(results) :
                  results[i] = RenderSchema(Loaded(NamesList(names))[i])
    /\ (entry = "render_to_files" /\ pc = "returned") =>
           /\ Len(results) = Len(Loaded(NamesList(names)))
           /\ \A i \in 1..Len(results) :
                  results[i] = TemplateFilename(Loaded(NamesList(names))[i])

====
